---- MODULE Spec2Model ----
(***************************************************************************)
(* rich_header.h: locating, sizing and unmasking the PE "Rich" header.     *)
(*                                                                         *)
(* Memory is a sequence of bytes; offset o of the C code is element o+1.   *)
(* A 32-bit word is the tuple of its four bytes in memory order (the       *)
(* little-endian layout the library is written for).                       *)
(***************************************************************************)
EXTENDS Integers, Sequences, FiniteSets, TLC

VARIABLES
    file,     \* the bytes read from disk (main's `content` right after fread)
    data,     \* the buffer `data` / `content` as it is now (unmask may write it)
    asm,      \* how the file was assembled (a record), for the round trip
    pc,       \* position of the program
    p,        \* byte offset of the loop pointer `p` relative to `data`
    rhdr,     \* byte offset held by the caller's *rhdr
    key,      \* the value (*rhdr)->Key evaluates to
    ret,      \* value returned by rich_header_from_data
    reads,    \* byte offsets rich_header_from_data has read so far
    dst,      \* where rich_header_unmask writes: "inplace" or "separate"
    out,      \* the separate output buffer `masked_rhdr`, as words
    i,        \* loop index of rich_header_unmask / of main's print loop
    shown     \* what main's loop printed: one record per product entry

vars == <<file, data, asm, pc, p, rhdr, key, ret, reads, dst, out, i, shown>>

----------------------------------------------------------------------------
(* Bytes and words *)

RECURSIVE XorBits(_, _, _)
XorBits(a, b, n) ==
    IF n = 0 THEN 0
    ELSE (((a % 2) + (b % 2)) % 2) + (2 * XorBits(a \div 2, b \div 2, n - 1))

\* the C operator ^ on two uint32_t, byte by byte
Xor32(w, k) == [j \in 1..4 |-> XorBits(w[j], k[j], 8)]

\* the numeric value of a little-endian word
U32(w) == w[1] + (256 * w[2]) + (65536 * w[3]) + (16777216 * w[4])

\* a uint16_t field at byte offset o of a byte sequence
U16At(d, o) == d[o + 1] + (256 * d[o + 2])

WordAt(d, o) == <<d[o + 1], d[o + 2], d[o + 3], d[o + 4]>>

RECURSIVE Flatten(_)
Flatten(ws) == IF ws = <<>> THEN <<>> ELSE Head(ws) \o Flatten(Tail(ws))

\* the words of the byte range [o, o + 4n)
WordsAt(d, o, n) == [j \in 1..n |-> WordAt(d, o + (4 * (j - 1)))]

----------------------------------------------------------------------------
(* Constants of rich_header_from_data *)

\* { 'R', 'i', 'c', 'h' }
rich_header_signature == <<82, 105, 99, 104>>
\* { 'D', 'a', 'n', 'S' }
rich_header_dans == <<68, 97, 110, 83>>
\* sizeof(IMAGE_DOS_HEADER): the scan starts here
DosHeaderSize == 64
\* the value the caller's pointer holds before the call (the start of content)
RhdrBefore == 0

----------------------------------------------------------------------------
(* The files the program is run on *)

\* Key 0x12345678 as it lies in memory
Key1 == <<120, 86, 52, 18>>
\* the key that masks "DanS" to "Rich"
Key2 == Xor32(rich_header_signature, rich_header_dans)
Zero32 == <<0, 0, 0, 0>>

\* keys a header is assembled with
Keys == {Key1, Key2, rich_header_signature}

\* unmasked product entries, each its BuildNumber/ProductID word and its
\* ObjectCount word: 0x1234 / 0x00aa / 7, 0x5678 / 0x0104 / 1, and two entries
\* with a word that reads "DanS"
ProdEntries ==
    { << <<52, 18, 170, 0>>, <<7, 0, 0, 0>> >>,
      << <<120, 86, 4, 1>>, <<1, 0, 0, 0>> >>,
      << <<52, 18, 170, 0>>, rich_header_dans >>,
      << rich_header_dans, <<7, 0, 0, 0>> >> }

\* words of the padding that follows the DOS header
PadWords == {Zero32, rich_header_signature}

\* words of a free-form buffer
BodyWords == {rich_header_signature, Key1, Xor32(rich_header_dans, Key1)}

\* what an out-of-bounds read of Key bytes may find behind the buffer
GarbageWords == {Key1, Key2}

\* most product entries of an assembled header
MaxProducts == 2
\* most padding words behind the DOS header of an assembled file
MaxPad == 1
\* most words behind the DOS header of a free-form buffer
MaxBody == 3

\* word slots of the DOS header that may hold a body word
HdrSlots == {1, 12, 13}

SeqsUpTo(S, n) == UNION {[1..m -> S] : m \in 0..n}

\* the first 64 bytes: 16 words, slot s holding h, every other one Key1
DosHeader(s, h) == [j \in 1..(DosHeaderSize \div 4) |-> IF j = s THEN h ELSE Key1]

\* [padding][masked DanS][3 masked zero words][masked products]["Rich"][Key]
Assemble(pad, K, pw) ==
    [data |-> Flatten(DosHeader(1, Key1) \o pad
                      \o <<Xor32(rich_header_dans, K), Xor32(Zero32, K),
                           Xor32(Zero32, K), Xor32(Zero32, K)>>
                      \o [j \in 1..Len(pw) |-> Xor32(pw[j], K)]
                      \o <<rich_header_signature, K>>),
     asm  |-> [kind |-> "assembled", pad |-> DosHeaderSize + (4 * Len(pad)),
               Key |-> K, words |-> pw]]

AssembledInputs ==
    {Assemble(pad, K, pw) :
        pad \in SeqsUpTo(PadWords, MaxPad), K \in Keys,
        pw \in {Flatten(es) : es \in SeqsUpTo(ProdEntries, MaxProducts)}}

\* a buffer of any size >= 64 and any content: DOS header, words, 0..3 bytes
FreeInputs ==
    {[data |-> Flatten(DosHeader(s, h) \o body) \o SubSeq(Key1, 1, t),
      asm  |-> [kind |-> "free", pad |-> 0, Key |-> <<>>, words |-> <<>>]] :
        s \in HdrSlots, h \in BodyWords,
        body \in SeqsUpTo(BodyWords, MaxBody), t \in 0..3}

Inputs == AssembledInputs \cup FreeInputs

data_size == Len(data)

Init ==
    /\ \E in \in Inputs : file = in.data /\ data = in.data /\ asm = in.asm
    /\ pc = "scan"
    /\ p = DosHeaderSize
    /\ rhdr = RhdrBefore
    /\ key = <<>>
    /\ ret = 0
    /\ reads = {}
    /\ dst = "none"
    /\ out = <<>>
    /\ i = 0
    /\ shown = <<>>

----------------------------------------------------------------------------
(* rich_header_from_data *)

\* while ((char*)p + sizeof(rich_header_signature) < (char*)data + data_size)
ScanCond(o, size) == o + 4 < size

\* memcmp((void*)p, rich_header_signature, sizeof(rich_header_signature)) == 0
MarkerAt(d, o) == WordAt(d, o) = rich_header_signature

\* a scan that also stops on a word that unmasks to zero
IsDanSOrZero(w, k) == Xor32(w, k) = rich_header_dans \/ Xor32(w, k) = Zero32

\* (*p ^ (*rhdr)->Key) == *(uint32_t *)rich_header_dans
IsDanS(w, k) == Xor32(w, k) = rich_header_dans

\* a size that leaves the signature word out
HeaderSizeBehindDanS(rh, o) == rh - o - 4

\* return (char *)*rhdr - (char *)p
HeaderSize(rh, o) == rh - o

Window(o) == o..(o + 3)

\* a forward loop that stores the pointer before it compares
ScanStepStoresRhdr ==
    /\ pc = "scan"
    /\ ScanCond(p, data_size)
    /\ ~MarkerAt(data, p)
    /\ rhdr' = p
    /\ p' = p + 4
    /\ reads' = reads \cup Window(p)
    /\ UNCHANGED <<file, data, asm, pc, key, ret, dst, out, i, shown>>

\* one turn of the forward loop that does not match: p += 1
ScanStep ==
    /\ pc = "scan"
    /\ ScanCond(p, data_size)
    /\ ~MarkerAt(data, p)
    /\ p' = p + 4
    /\ reads' = reads \cup Window(p)
    /\ UNCHANGED <<file, data, asm, pc, rhdr, key, ret, dst, out, i, shown>>

\* the turn that matches: found_header = true; *rhdr = p; break
ScanFound ==
    /\ pc = "scan"
    /\ ScanCond(p, data_size)
    /\ MarkerAt(data, p)
    /\ rhdr' = p
    /\ reads' = reads \cup Window(p)
    /\ pc' = "found"
    /\ UNCHANGED <<file, data, asm, p, key, ret, dst, out, i, shown>>

\* the loop ends without a match: if (!found_header) return -1
ScanNotFound ==
    /\ pc = "scan"
    /\ ~ScanCond(p, data_size)
    /\ ret' = -1
    /\ pc' = "returned"
    /\ UNCHANGED <<file, data, asm, p, rhdr, key, reads, dst, out, i, shown>>

\* (*rhdr)->Key: the four bytes behind the marker.  A byte at or beyond
\* data_size is not part of the buffer: the read finds whatever lies there.
ReadKey ==
    /\ pc = "found"
    /\ \E g \in (IF rhdr + 8 <= data_size THEN {Zero32} ELSE GarbageWords) :
          key' = [j \in 1..4 |-> IF rhdr + 4 + j <= data_size
                              THEN data[rhdr + 4 + j] ELSE g[j]]
    /\ reads' = reads \cup Window(rhdr + 4)
    /\ p' = rhdr
    /\ pc' = "back"
    /\ UNCHANGED <<file, data, asm, rhdr, ret, dst, out, i, shown>>

\* ... or the bytes behind the buffer are not mapped and the read faults
KeyFault ==
    /\ pc = "found"
    /\ rhdr + 8 > data_size
    /\ reads' = reads \cup Window(rhdr + 4)
    /\ pc' = "fault"
    /\ UNCHANGED <<file, data, asm, p, rhdr, key, ret, dst, out, i, shown>>

\* one turn of the backward loop that does not match: --p
BackStep ==
    /\ pc = "back"
    /\ p >= 0
    /\ ~IsDanS(WordAt(data, p), key)
    /\ p' = p - 4
    /\ reads' = reads \cup Window(p)
    /\ UNCHANGED <<file, data, asm, pc, rhdr, key, ret, dst, out, i, shown>>

\* the turn that matches returns the distance to the marker
BackFound ==
    /\ pc = "back"
    /\ p >= 0
    /\ IsDanS(WordAt(data, p), key)
    /\ ret' = HeaderSize(rhdr, p)
    /\ reads' = reads \cup Window(p)
    /\ pc' = "returned"
    /\ UNCHANGED <<file, data, asm, p, rhdr, key, dst, out, i, shown>>

\* p went below data: return -2.  (p is then data - 4, a pointer in front of
\* the buffer; on the flat address space the library is built for it compares
\* below data and the loop ends.)
BackFail ==
    /\ pc = "back"
    /\ p < 0
    /\ ret' = -2
    /\ pc' = "returned"
    /\ UNCHANGED <<file, data, asm, p, rhdr, key, reads, dst, out, i, shown>>

----------------------------------------------------------------------------
(* rich_header_productid_to_cstr, rich_header_productid_to_vsver_cstr *)

\* uint16_t product_id
MaxProductId == 65535

\* the cases 0x0000 .. 0x010e of the switch, in order
ProductNames == <<
    "Unknown", "Import0", "Linker510", "Cvtomf510",
    "Linker600", "Cvtomf600", "Cvtres500", "Utc11_Basic",
    "Utc11_C", "Utc12_Basic", "Utc12_C", "Utc12_CPP",
    "AliasObj60", "VisualBasic60", "Masm613", "Masm710",
    "Linker511", "Cvtomf511", "Masm614", "Linker512",
    "Cvtomf512", "Utc12_C_Std", "Utc12_CPP_Std", "Utc12_C_Book",
    "Utc12_CPP_Book", "Implib700", "Cvtomf700", "Utc13_Basic",
    "Utc13_C", "Utc13_CPP", "Linker610", "Cvtomf610",
    "Linker601", "Cvtomf601", "Utc12_1_Basic", "Utc12_1_C",
    "Utc12_1_CPP", "Linker620", "Cvtomf620", "AliasObj70",
    "Linker621", "Cvtomf621", "Masm615", "Utc13_LTCG_C",
    "Utc13_LTCG_CPP", "Masm620", "ILAsm100", "Utc12_2_Basic",
    "Utc12_2_C", "Utc12_2_CPP", "Utc12_2_C_Std", "Utc12_2_CPP_Std",
    "Utc12_2_C_Book", "Utc12_2_CPP_Book", "Implib622", "Cvtomf622",
    "Cvtres501", "Utc13_C_Std", "Utc13_CPP_Std", "Cvtpgd1300",
    "Linker622", "Linker700", "Export622", "Export700",
    "Masm700", "Utc13_POGO_I_C", "Utc13_POGO_I_CPP", "Utc13_POGO_O_C",
    "Utc13_POGO_O_CPP", "Cvtres700", "Cvtres710p", "Linker710p",
    "Cvtomf710p", "Export710p", "Implib710p", "Masm710p",
    "Utc1310p_C", "Utc1310p_CPP", "Utc1310p_C_Std", "Utc1310p_CPP_Std",
    "Utc1310p_LTCG_C", "Utc1310p_LTCG_CPP", "Utc1310p_POGO_I_C", "Utc1310p_POGO_I_CPP",
    "Utc1310p_POGO_O_C", "Utc1310p_POGO_O_CPP", "Linker624", "Cvtomf624",
    "Export624", "Implib624", "Linker710", "Cvtomf710",
    "Export710", "Implib710", "Cvtres710", "Utc1310_C",
    "Utc1310_CPP", "Utc1310_C_Std", "Utc1310_CPP_Std", "Utc1310_LTCG_C",
    "Utc1310_LTCG_CPP", "Utc1310_POGO_I_C", "Utc1310_POGO_I_CPP", "Utc1310_POGO_O_C",
    "Utc1310_POGO_O_CPP", "AliasObj710", "AliasObj710p", "Cvtpgd1310",
    "Cvtpgd1310p", "Utc1400_C", "Utc1400_CPP", "Utc1400_C_Std",
    "Utc1400_CPP_Std", "Utc1400_LTCG_C", "Utc1400_LTCG_CPP", "Utc1400_POGO_I_C",
    "Utc1400_POGO_I_CPP", "Utc1400_POGO_O_C", "Utc1400_POGO_O_CPP", "Cvtpgd1400",
    "Linker800", "Cvtomf800", "Export800", "Implib800",
    "Cvtres800", "Masm800", "AliasObj800", "PhoenixPrerelease",
    "Utc1400_CVTCIL_C", "Utc1400_CVTCIL_CPP", "Utc1400_LTCG_MSIL", "Utc1500_C",
    "Utc1500_CPP", "Utc1500_C_Std", "Utc1500_CPP_Std", "Utc1500_CVTCIL_C",
    "Utc1500_CVTCIL_CPP", "Utc1500_LTCG_C", "Utc1500_LTCG_CPP", "Utc1500_LTCG_MSIL",
    "Utc1500_POGO_I_C", "Utc1500_POGO_I_CPP", "Utc1500_POGO_O_C", "Utc1500_POGO_O_CPP",
    "Cvtpgd1500", "Linker900", "Export900", "Implib900",
    "Cvtres900", "Masm900", "AliasObj900", "Resource",
    "AliasObj1000", "Cvtpgd1600", "Cvtres1000", "Export1000",
    "Implib1000", "Linker1000", "Masm1000", "Phx1600_C",
    "Phx1600_CPP", "Phx1600_CVTCIL_C", "Phx1600_CVTCIL_CPP", "Phx1600_LTCG_C",
    "Phx1600_LTCG_CPP", "Phx1600_LTCG_MSIL", "Phx1600_POGO_I_C", "Phx1600_POGO_I_CPP",
    "Phx1600_POGO_O_C", "Phx1600_POGO_O_CPP", "Utc1600_C", "Utc1600_CPP",
    "Utc1600_CVTCIL_C", "Utc1600_CVTCIL_CPP", "Utc1600_LTCG_C", "Utc1600_LTCG_CPP",
    "Utc1600_LTCG_MSIL", "Utc1600_POGO_I_C", "Utc1600_POGO_I_CPP", "Utc1600_POGO_O_C",
    "Utc1600_POGO_O_CPP", "AliasObj1010", "Cvtpgd1610", "Cvtres1010",
    "Export1010", "Implib1010", "Linker1010", "Masm1010",
    "Utc1610_C", "Utc1610_CPP", "Utc1610_CVTCIL_C", "Utc1610_CVTCIL_CPP",
    "Utc1610_LTCG_C", "Utc1610_LTCG_CPP", "Utc1610_LTCG_MSIL", "Utc1610_POGO_I_C",
    "Utc1610_POGO_I_CPP", "Utc1610_POGO_O_C", "Utc1610_POGO_O_CPP", "AliasObj1100",
    "Cvtpgd1700", "Cvtres1100", "Export1100", "Implib1100",
    "Linker1100", "Masm1100", "Utc1700_C", "Utc1700_CPP",
    "Utc1700_CVTCIL_C", "Utc1700_CVTCIL_CPP", "Utc1700_LTCG_C", "Utc1700_LTCG_CPP",
    "Utc1700_LTCG_MSIL", "Utc1700_POGO_I_C", "Utc1700_POGO_I_CPP", "Utc1700_POGO_O_C",
    "Utc1700_POGO_O_CPP", "AliasObj1200", "Cvtpgd1800", "Cvtres1200",
    "Export1200", "Implib1200", "Linker1200", "Masm1200",
    "Utc1800_C", "Utc1800_CPP", "Utc1800_CVTCIL_C", "Utc1800_CVTCIL_CPP",
    "Utc1800_LTCG_C", "Utc1800_LTCG_CPP", "Utc1800_LTCG_MSIL", "Utc1800_POGO_I_C",
    "Utc1800_POGO_I_CPP", "Utc1800_POGO_O_C", "Utc1800_POGO_O_CPP", "AliasObj1210",
    "Cvtpgd1810", "Cvtres1210", "Export1210", "Implib1210",
    "Linker1210", "Masm1210", "Utc1810_C", "Utc1810_CPP",
    "Utc1810_CVTCIL_C", "Utc1810_CVTCIL_CPP", "Utc1810_LTCG_C", "Utc1810_LTCG_CPP",
    "Utc1810_LTCG_MSIL", "Utc1810_POGO_I_C", "Utc1810_POGO_I_CPP", "Utc1810_POGO_O_C",
    "Utc1810_POGO_O_CPP", "AliasObj1400", "Cvtpgd1900", "Cvtres1400",
    "Export1400", "Implib1400", "Linker1400", "Masm1400",
    "Utc1900_C", "Utc1900_CPP", "Utc1900_CVTCIL_C", "Utc1900_CVTCIL_CPP",
    "Utc1900_LTCG_C", "Utc1900_LTCG_CPP", "Utc1900_LTCG_MSIL", "Utc1900_POGO_I_C",
    "Utc1900_POGO_I_CPP", "Utc1900_POGO_O_C", "Utc1900_POGO_O_CPP" >>

\* default: return ""
rich_header_productid_to_cstr_default_unknown(product_id) ==
    IF product_id < Len(ProductNames) THEN ProductNames[product_id + 1]
    ELSE "Unknown"

\* switch (product_id) { case ...: return "..."; default: return ""; }
rich_header_productid_to_cstr(product_id) ==
    IF product_id < Len(ProductNames) THEN ProductNames[product_id + 1]
    ELSE ""

rich_header_productid_to_vsver_cstr(product_id) ==
    IF product_id >= 262 /\ product_id <= 266 THEN "Visual Studio 2017 14.01+"
    ELSE IF product_id >= 253 /\ product_id <= 262 THEN "Visual Studio 2015 14.00"
    ELSE IF product_id >= 235 /\ product_id <= 253 THEN "Visual Studio 2013 12.10"
    ELSE IF product_id >= 217 /\ product_id <= 235 THEN "Visual Studio 2013 12.00"
    ELSE IF product_id >= 199 /\ product_id <= 217 THEN "Visual Studio 2012 11.00"
    ELSE IF product_id >= 181 /\ product_id <= 199 THEN "Visual Studio 2010 10.10"
    ELSE IF product_id >= 152 /\ product_id <= 181 THEN "Visual Studio 2010 10.00"
    ELSE IF product_id >= 131 /\ product_id <= 152 THEN "Visual Studio 2008 09.00"
    ELSE IF product_id >= 109 /\ product_id <= 131 THEN "Visual Studio 2005 08.00"
    ELSE IF product_id >= 90 /\ product_id <= 109 THEN "Visual Studio 2003 07.10"
    ELSE IF product_id >= 25 /\ product_id <= 69 THEN "Visual Studio 2002 07.00"
    ELSE IF \/ (product_id >= 10 /\ product_id <= 13)
            \/ (product_id >= 21 /\ product_id <= 22) THEN "Visual Studio 6.0 06.00"
    ELSE IF \/ product_id = 2 \/ product_id = 6
            \/ product_id = 12 \/ product_id = 14 THEN "Visual Studio 97 05.00"
    ELSE IF product_id = 1 THEN "Visual Studio"
    ELSE ""

----------------------------------------------------------------------------
(* rich_header_unmask, called as main calls it *)

\* uint32_t *p = (uint32_t*)((char*)rhdr - masked_rhdr_size)
MaskedStart(rh, size) == rh - size

\* i < masked_rhdr_size / sizeof(uint32_t)
UnmaskCond(k, size) == k < size \div 4

\* a copy that forgets the key
UnmaskWordCopy(w, k) == w

\* p[i] ^ rhdr->Key
UnmaskWord(w, k) == Xor32(w, k)

\* assert(rich_header_size > 0) fails
MainAssertFail ==
    /\ pc = "returned"
    /\ ~(ret > 0)
    /\ pc' = "aborted"
    /\ UNCHANGED <<file, data, asm, p, rhdr, key, ret, reads, dst, out, i, shown>>

\* the call of rich_header_unmask: in place, as main does, or into a buffer
\* of masked_rhdr_size bytes of the caller's own
UnmaskCall ==
    /\ pc = "returned"
    /\ ret > 0
    /\ \E d \in {"inplace", "separate"} : dst' = d
    /\ out' = [j \in 1..(ret \div 4) |-> <<>>]
    /\ i' = 0
    /\ pc' = "unmask"
    /\ UNCHANGED <<file, data, asm, p, rhdr, key, ret, reads, shown>>

\* a store one word further on
StoreWordBehind(d, o, w) ==
    [j \in 1..Len(d) |-> IF j > o + 4 /\ j <= o + 8 THEN w[j - (o + 4)] ELSE d[j]]

\* d with the word w stored at byte offset o
StoreWord(d, o, w) ==
    [j \in 1..Len(d) |-> IF j > o /\ j <= o + 4 THEN w[j - o] ELSE d[j]]

\* rhdr->Key as this turn of the loop reads it from memory d: the bytes of the
\* buffer as they are now, and behind the buffer what the locator found there
RhdrKey(d, rh, k) ==
    [j \in 1..4 |-> IF rh + 4 + j <= Len(d) THEN d[rh + 4 + j] ELSE k[j]]

\* ((uint32_t*)masked_rhdr)[i] = p[i] ^ rhdr->Key
UnmaskStep ==
    /\ pc = "unmask"
    /\ UnmaskCond(i, ret)
    /\ LET w == UnmaskWord(WordAt(data, MaskedStart(rhdr, ret) + (4 * i)),
                           RhdrKey(data, rhdr, key))
       IN  IF dst = "inplace"
           THEN /\ data' = StoreWord(data, MaskedStart(rhdr, ret) + (4 * i), w)
                /\ out' = out
           ELSE /\ out' = [out EXCEPT ![i + 1] = w]
                /\ data' = data
    /\ i' = i + 1
    /\ UNCHANGED <<file, asm, pc, p, rhdr, key, ret, reads, dst, shown>>

\* the whole loop run on memory d into a buffer of the caller's own: the
\* first n words it writes
RECURSIVE UnmaskInto(_, _, _, _, _)
UnmaskInto(d, rh, size, k, n) ==
    IF n = 0 THEN <<>>
    ELSE Append(UnmaskInto(d, rh, size, k, n - 1),
                UnmaskWord(WordAt(d, MaskedStart(rh, size) + (4 * (n - 1))),
                           RhdrKey(d, rh, k)))

\* the loop ends: i == masked_rhdr_size / sizeof(uint32_t)
UnmaskReturn ==
    /\ pc = "unmask"
    /\ ~UnmaskCond(i, ret)
    /\ i' = 0
    /\ pc' = "print"
    /\ UNCHANGED <<file, data, asm, p, rhdr, key, ret, reads, dst, out, shown>>

\* the memory main reads the unmasked header from, and the header's offset
Unmasked == IF dst = "inplace" THEN data ELSE Flatten(out)
UnmaskedAt == IF dst = "inplace" THEN MaskedStart(rhdr, ret) ELSE 0

\* (rich_header_size - sizeof(uint32_t)*4) / sizeof(IMAGE_MASKED_RICH_HEADER_PRODUCT),
\* for a size of at least 16
rich_header_products_len(rich_header_size) == (rich_header_size - 16) \div 8

\* i < rich_header_products_len(rich_header_size).  The subtraction is done in
\* size_t: below 16 it wraps and the bound is at least 2^61 - 2, above any
\* index.
PrintCond(k, size) == size < 16 \/ k < rich_header_products_len(size)

\* byte offset of Products[k] in the header
ProductOffset(k) == 16 + (8 * k)

\* the two uint16_t fields of the struct in the other order
ProductIdFirst(d, o, k) ==
    [BuildNumber |-> U16At(d, o + ProductOffset(k) + 2),
     ProductID   |-> U16At(d, o + ProductOffset(k)),
     ObjectCount |-> U32(WordAt(d, o + ProductOffset(k) + 4))]

\* IMAGE_MASKED_RICH_HEADER_PRODUCT product = masked_rich_header->Products[k]
Product(d, o, k) ==
    [BuildNumber |-> U16At(d, o + ProductOffset(k)),
     ProductID   |-> U16At(d, o + ProductOffset(k) + 2),
     ObjectCount |-> U32(WordAt(d, o + ProductOffset(k) + 4))]

\* one line of main's loop
PrintStep ==
    /\ pc = "print"
    /\ PrintCond(i, ret)
    /\ UnmaskedAt + ProductOffset(i) + 8 <= Len(Unmasked)
    /\ LET product == Product(Unmasked, UnmaskedAt, i)
       IN  shown' = Append(shown,
              [product |-> product,
               name    |-> rich_header_productid_to_cstr(product.ProductID),
               vsver   |-> rich_header_productid_to_vsver_cstr(product.ProductID)])
    /\ i' = i + 1
    /\ UNCHANGED <<file, data, asm, pc, p, rhdr, key, ret, reads, dst, out>>

\* the loop runs on past the end of the memory it reads
PrintOverrun ==
    /\ pc = "print"
    /\ PrintCond(i, ret)
    /\ UnmaskedAt + ProductOffset(i) + 8 > Len(Unmasked)
    /\ pc' = "crashed"
    /\ UNCHANGED <<file, data, asm, p, rhdr, key, ret, reads, dst, out, i, shown>>

\* return EXIT_SUCCESS
PrintDone ==
    /\ pc = "print"
    /\ ~PrintCond(i, ret)
    /\ pc' = "exit"
    /\ UNCHANGED <<file, data, asm, p, rhdr, key, ret, reads, dst, out, i, shown>>

----------------------------------------------------------------------------
Next ==
    \/ ScanStep
    \/ ScanFound
    \/ ScanNotFound
    \/ ReadKey
    \/ KeyFault
    \/ BackStep
    \/ BackFound
    \/ BackFail
    \/ MainAssertFail
    \/ UnmaskCall
    \/ UnmaskStep
    \/ UnmaskReturn
    \/ PrintStep
    \/ PrintOverrun
    \/ PrintDone

Spec == Init /\ [][Next]_vars

----------------------------------------------------------------------------
(* The classifier on its own: every product_id *)

InitLookup ==
    /\ file = <<>> /\ data = <<>>
    /\ asm = [kind |-> "none", pad |-> 0, Key |-> <<>>, words |-> <<>>]
    /\ pc = "lookup"
    /\ p = 0 /\ rhdr = RhdrBefore /\ key = <<>> /\ ret = 0 /\ reads = {}
    /\ dst = "none" /\ out = <<>> /\ i = 0 /\ shown = <<>>

Lookup ==
    /\ pc = "lookup"
    /\ \E product_id \in 0..MaxProductId :
          shown' = <<[product |-> [BuildNumber |-> 0, ProductID |-> product_id,
                                    ObjectCount |-> 0],
                      name    |-> rich_header_productid_to_cstr(product_id),
                      vsver   |-> rich_header_productid_to_vsver_cstr(product_id)]>>
    /\ pc' = "looked"
    /\ UNCHANGED <<file, data, asm, p, rhdr, key, ret, reads, dst, out, i>>

NextLookup == Lookup

SpecLookup == InitLookup /\ [][NextLookup]_vars

----------------------------------------------------------------------------
(* What the properties speak of *)

\* rich_header_from_data has returned
Returned == pc \in {"returned", "aborted", "unmask", "print", "exit", "crashed"}

\* rich_header_unmask has returned
UnmaskReturned == pc \in {"print", "exit", "crashed"}

Max(S) == CHOOSE x \in S : \A y \in S : y <= x
Min(S) == CHOOSE x \in S : \A y \in S : x <= y

\* offsets of the "Rich" words the forward scan can meet: from offset 64 on,
\* a word apart, with at least one byte of the buffer behind the word
Markers ==
    {o \in DosHeaderSize..Len(file) :
        /\ (o - DosHeaderSize) % 4 = 0
        /\ o + 4 < Len(file)
        /\ WordAt(file, o) = rich_header_signature}

\* offsets, from the marker rh down to 0, of the words that unmask to "DanS"
Matches(rh, k) ==
    {q \in 0..rh : q % 4 = 0 /\ Xor32(WordAt(file, q), k) = rich_header_dans}

\* an assembled file: number of product entries, offset of its "Rich" word
AsmN == Len(asm.words) \div 2
AsmRich == asm.pad + 16 + (8 * AsmN)

\* no word of the assembled file between offset 64 and its marker reads "Rich"
NoEarlierRich ==
    \A o \in DosHeaderSize..(AsmRich - 4) :
        (o % 4 = 0) => WordAt(file, o) # rich_header_signature

\* no unmasked product word reads "DanS"
NoDanSProduct == \A j \in 1..Len(asm.words) : asm.words[j] # rich_header_dans

\* the round trip on an assembled file
RoundTrip ==
    /\ Returned =>
          /\ ret = 16 + (8 * AsmN)
          /\ rhdr = AsmRich
          /\ key = asm.Key
    /\ UnmaskReturned =>
          WordsAt(Unmasked, UnmaskedAt + 16, 2 * AsmN) = asm.words
    /\ pc = "exit" =>
          /\ Len(shown) = AsmN
          /\ \A k \in 1..AsmN :
                /\ shown[k].product.BuildNumber = U32(asm.words[(2 * k) - 1]) % 65536
                /\ shown[k].product.ProductID = U32(asm.words[(2 * k) - 1]) \div 65536
                /\ shown[k].product.ObjectCount = U32(asm.words[2 * k])
    /\ pc \notin {"fault", "aborted", "crashed"}

----------------------------------------------------------------------------
(* C1 *)

\* C1 as stated: on every assembled file, whatever the Key, the number of
\* products, the padding and the product values, locate and unmask give the
\* size 16 + 8N, *rhdr at the assembled "Rich" word, the Key, and the N
\* product entries in order.
C1_RoundTripAnyFile == asm.kind = "assembled" => RoundTrip

\* C1: on every assembled file in which no aligned word between offset 64 and
\* the assembled marker reads "Rich" and no unmasked product word reads
\* "DanS", locate and unmask give the size 16 + 8N, *rhdr at the assembled
\* "Rich" word, the Key, and the N product entries in order.
C1_RoundTrip ==
    (asm.kind = "assembled" /\ NoEarlierRich /\ NoDanSProduct) => RoundTrip

C1_Witness ==
    /\ asm.kind = "assembled" /\ NoEarlierRich /\ NoDanSProduct
    /\ asm.pad > DosHeaderSize
    /\ AsmN = 2
    /\ pc = "exit"
    /\ Len(shown) = 2
    /\ ret = 32

----------------------------------------------------------------------------
(* C2 *)

\* C2: every call on a buffer of at least 64 bytes ends in one of three ways:
\* -1 exactly when the forward scan meets no "Rich" word; -2 exactly when it
\* meets one and no word from the marker down to offset 0 unmasks to "DanS";
\* otherwise the distance from the nearest such word to the marker.
C2_ThreeOutcomes ==
    pc \notin {"scan", "found", "back"} =>
        /\ pc # "fault"
        /\ (ret = -1) <=> (Markers = {})
        /\ Markers # {} =>
              /\ (ret = -2) <=> (Matches(Min(Markers), key) = {})
              /\ Matches(Min(Markers), key) # {} =>
                    ret = Min(Markers) - Max(Matches(Min(Markers), key))

\* the same three outcomes on the buffers that hold the four Key bytes
C2_ThreeOutcomesKeyInside ==
    (pc \notin {"scan", "found", "back"}
        /\ (Markers # {} => Min(Markers) + 8 <= Len(file))) =>
        /\ pc # "fault"
        /\ (ret = -1) <=> (Markers = {})
        /\ Markers # {} =>
              /\ key = WordAt(file, Min(Markers) + 4)
              /\ (ret = -2) <=> (Matches(Min(Markers), key) = {})
              /\ Matches(Min(Markers), key) # {} =>
                    ret = Min(Markers) - Max(Matches(Min(Markers), key))

----------------------------------------------------------------------------
(* C3 *)

\* C3: every byte rich_header_from_data reads lies at an offset in [0, size).
C3_ReadsInBounds == reads \subseteq 0..(data_size - 1)

----------------------------------------------------------------------------
(* C4 *)

\* C4: a length that rich_header_from_data returns is at least 16 and is 16
\* plus a multiple of 8; any other distance to a "DanS" match is reported as
\* -2.
C4_WellFormedLength ==
    (Returned /\ ret # -1 /\ ret # -2) => (ret >= 16 /\ (ret - 16) % 8 = 0)

----------------------------------------------------------------------------
(* C5 *)

\* C5: a marker whose four Key bytes do not all lie in the buffer is not
\* found: every call that meets a marker at o in a buffer shorter than o + 8
\* returns -1, and every length returned comes with
\* start_offset + length_bytes + 8 <= size.
C5_KeyInsideBuffer ==
    /\ (pc \notin {"scan", "found", "back"} /\ Markers # {}
            /\ Len(file) < Min(Markers) + 8) =>
          (pc # "fault" /\ ret = -1)
    /\ (Returned /\ ret >= 0) => (rhdr - ret) + ret + 8 <= data_size

----------------------------------------------------------------------------
(* C6 *)

\* C6: when a marker was found and the call returns, the header start it
\* reports is the offset nearest to the marker, among all words from the
\* marker down to offset 0, whose word XOR Key reads "DanS"; words that
\* unmask to zero do not end the scan; with no such word the result is -2.
C6_StopsOnSignatureOnly ==
    (pc = "returned" /\ ret # -1) =>
        LET M == Matches(rhdr, key)
        IN  IF M = {}
            THEN ret = -2
            ELSE /\ ret = rhdr - Max(M)
                 /\ Xor32(WordAt(file, rhdr - ret), key) = rich_header_dans

\* a header found behind three words that unmask to zero, with another such
\* word in front of it
C6_Witness ==
    /\ pc = "returned"
    /\ ret >= 16
    /\ \A q \in {4, 8, 12} : WordAt(file, (rhdr - ret) + q) = key
    /\ rhdr - ret >= 4
    /\ WordAt(file, (rhdr - ret) - 4) = key

----------------------------------------------------------------------------
(* C7 *)

\* the words of the masked span, as they were before the call
MaskedWords == WordsAt(file, rhdr - ret, ret \div 4)

\* C7: rich_header_unmask writes ret / 4 words, each the masked word of the
\* same index XOR Key; for a size of at least 16, main's loop then meets
\* (size - 16) / 8 entries, entry k with BuildNumber the low and ProductID the
\* high 16 bits of word 4 + 2k and ObjectCount word 5 + 2k.
C7_UnmaskIsXor ==
    /\ UnmaskReturned =>
          /\ dst = "separate" =>
                (Len(out) = ret \div 4 /\ \A j \in 1..Len(out) : out[j] # <<>>)
          /\ \A j \in 1..(ret \div 4) :
                \A b \in 1..4 :
                    WordAt(Unmasked, UnmaskedAt + (4 * (j - 1)))[b]
                        = XorBits(MaskedWords[j][b], key[b], 8)
    /\ pc = "exit" =>
          /\ Len(shown) = (ret - 16) \div 8
          /\ (ret = 16 => shown = <<>>)
          /\ \A k \in 0..(Len(shown) - 1) :
                /\ shown[k + 1].product.BuildNumber
                      = U32(Xor32(MaskedWords[5 + (2 * k)], key)) % 65536
                /\ shown[k + 1].product.ProductID
                      = U32(Xor32(MaskedWords[5 + (2 * k)], key)) \div 65536
                /\ shown[k + 1].product.ObjectCount
                      = U32(Xor32(MaskedWords[6 + (2 * k)], key))

C7_Witness ==
    /\ pc = "exit"
    /\ dst = "separate"
    /\ ret = 24
    /\ Len(out) = 6
    /\ Len(shown) = 1
    /\ shown[1].product.BuildNumber # shown[1].product.ProductID

----------------------------------------------------------------------------
(* C8 *)

\* C8 as stated: after -1 or -2 the caller's *rhdr holds what it held before.
C8_NothingEscapes == (Returned /\ ret < 0) => rhdr = RhdrBefore

\* C8: after -1 the caller's *rhdr holds what it held before the call; after
\* -2 it holds the address of the first "Rich" word the forward scan met.
C8_RhdrOnFailure ==
    /\ (Returned /\ ret = -1) => rhdr = RhdrBefore
    /\ (Returned /\ ret = -2) => (Markers # {} /\ rhdr = Min(Markers))

C8_Witness ==
    /\ pc = "aborted"
    /\ ret = -2
    /\ rhdr > DosHeaderSize
    /\ rhdr # RhdrBefore

----------------------------------------------------------------------------
(* C9 *)

\* the file of the scenario: Key 0x12345678, the one entry 0x1234 / 0x00aa / 7
Scenario ==
    /\ asm.kind = "assembled"
    /\ asm.Key = Key1
    /\ asm.words = << <<52, 18, 170, 0>>, <<7, 0, 0, 0>> >>
    /\ NoEarlierRich

\* C9: on the scenario's file locate returns 24, and main's loop shows one
\* entry: build_number 0x1234, product_id 0x00aa, object_count 7, name
\* "Utc1600_C", release "Visual Studio 2010 10.00".
C9_Scenario ==
    Scenario =>
        /\ Returned => ret = 24
        /\ pc \notin {"fault", "aborted", "crashed"}
        /\ pc = "exit" =>
              shown = << [product |-> [BuildNumber |-> 4660, ProductID |-> 170,
                                       ObjectCount |-> 7],
                          name    |-> "Utc1600_C",
                          vsver   |-> "Visual Studio 2010 10.00"] >>

C9_Witness ==
    /\ Scenario
    /\ pc = "exit"
    /\ dst = "inplace"
    /\ Len(shown) = 1
    /\ shown[1].name = "Utc1600_C"

----------------------------------------------------------------------------
(* C10 *)

\* the product_id ranges that have a release
InRelease(product_id) ==
    \/ product_id \in {1, 2, 6, 12, 14}
    \/ product_id \in 10..13
    \/ product_id \in 21..22
    \/ product_id \in 25..69
    \/ product_id \in 90..266

\* C10: for every product_id in [0, 0xFFFF] both lookups return a string; a
\* product_id above 0x010e has the name "", and one in no release range has
\* the release "".
C10_ClassifierTotal ==
    pc = "looked" =>
        /\ shown[1].name \in STRING
        /\ shown[1].vsver \in STRING
        /\ shown[1].product.ProductID > 270 => shown[1].name = ""
        /\ ~InRelease(shown[1].product.ProductID) => shown[1].vsver = ""

C10_Witness ==
    /\ pc = "looked"
    /\ shown[1].product.ProductID = MaxProductId
    /\ shown[1].name = ""
    /\ shown[1].vsver = ""

----------------------------------------------------------------------------
(* C11 *)

\* C11: when rich_header_unmask writes into the masked block itself
\* (masked_rhdr = rhdr - size), the words it leaves there are the words the
\* same call leaves in a separate buffer, and throughout the call the "Rich"
\* word, the Key and every byte outside [rhdr - size, rhdr) are as they were.
C11_InPlaceConfined ==
    (dst = "inplace" /\ pc \in {"unmask", "print", "exit", "crashed"}) =>
        /\ Len(data) = Len(file)
        /\ \A j \in 1..Len(data) :
              (j <= rhdr - ret \/ j > rhdr) => data[j] = file[j]
        /\ WordAt(data, rhdr) = rich_header_signature
        /\ RhdrKey(data, rhdr, key) = key
        /\ UnmaskReturned =>
              WordsAt(data, rhdr - ret, ret \div 4)
                  = UnmaskInto(file, rhdr, ret, key, ret \div 4)

\* an in-place call over a header with an entry, the Key the last four bytes
C11_Witness ==
    /\ dst = "inplace"
    /\ pc = "exit"
    /\ ret >= 24
    /\ rhdr + 8 = Len(data)
    /\ data # file
    /\ WordAt(data, rhdr - ret) = rich_header_dans

====
